---- MODULE Spec2Model ----
(***************************************************************************)
(* Model of components/tidb_query/src/executor/mod.rs:                     *)
(*   - OriginCols and its three column-resolution paths                    *)
(*     (get_binary, get_binary_cols, inflate_cols_with_offsets);           *)
(*   - ExprColumnRefVisitor (visit / batch_visit);                         *)
(*   - the Executor contract and the WithSummaryCollector decorator.       *)
(***************************************************************************)
EXTENDS Integers, Sequences, FiniteSets, TLC

VARIABLES
    row, args, call,                                   \* OriginCols
    cols_len, cols_offset, exprs, nextExpr, vcall, allOk, \* ExprColumnRefVisitor
    chain, dest, sdest, last, steps                       \* executor chain

rowVars == <<row, args, call>>

visitorVars == <<cols_len, cols_offset, exprs, nextExpr, vcall, allOk>>

chainVars == <<chain, dest, sdest, last, steps>>

vars == <<row, args, call, cols_len, cols_offset, exprs, nextExpr, vcall, allOk,
          chain, dest, sdest, last, steps>>

----------------------------------------------------------------------------
(* Bounds *)

MaxCols == 2

MaxOffsets == 2

MaxColsLen == 2

MaxChildren == 2

\* Width, in bits, of the model's i64 and usize
IntBits == 8

\* Decorators stacked on the leaf operator
MaxDepth == 2

\* Calls made on the topmost operator
MaxCalls == 4

----------------------------------------------------------------------------
(* Datum codec (crate::codec::datum, crate::codec::table, crate::util).    *)
(* A byte string is a sequence <<flag, payload>>; the payload of an        *)
(* integer is kept as one cell.                                            *)

NIL_FLAG == 0

INT_FLAG == 3

VAR_INT_FLAG == 8

CORRUPT_FLAG == 250

DatumNull == [tag |-> "Null", v |-> 0]

DatumI64(n) == [tag |-> "I64", v |-> n]

DecodeError == [tag |-> "DecodeError", v |-> 0]

\* datum::encode_value(&[d]) == write_datum(&[d], comparable = false)
EncodeValue(d) ==
    IF d.tag = "Null" THEN <<NIL_FLAG>> ELSE <<VAR_INT_FLAG, d.v>>

\* datum::encode_key(&[d]) == write_datum(&[d], comparable = true)
EncodeKey(d) ==
    IF d.tag = "Null" THEN <<NIL_FLAG>> ELSE <<INT_FLAG, d.v>>

\* table::decode_col_value: decode one datum, then unflatten by column type
\* (integer columns: unflatten leaves the datum as it is)
DecodeColValue(bs) ==
    IF Len(bs) = 1 /\ bs[1] = NIL_FLAG THEN DatumNull
    ELSE IF Len(bs) = 2 /\ bs[1] \in {INT_FLAG, VAR_INT_FLAG} THEN DatumI64(bs[2])
    ELSE DecodeError

\* util::get_pk(col, handle) for a signed handle column
GetPk(col, handle) == DatumI64(handle)

----------------------------------------------------------------------------
(* Results *)

Ok(v) == [ok |-> TRUE, val |-> v]

Err(e) == [ok |-> FALSE, val |-> e]

\* other_err!("column {} of {} is missing", col_id, self.handle)
MissingErr(col_id, handle) ==
    Err([kind |-> "missing", col_id |-> col_id, handle |-> handle])

\* box_try! of a codec failure
CodecErr == Err([kind |-> "codec", col_id |-> 0, handle |-> 0])

----------------------------------------------------------------------------
(* OriginCols *)

\* RowColsDict::get(col_id)
DataHas(r, col_id) == col_id \in DOMAIN r.data

\* get_binary_cols with the NOT NULL test taken before the default value
GetBinaryColsOne_NotNullFirst(r, col) ==
    IF col.pk_handle THEN Ok(EncodeValue(GetPk(col, r.handle)))
    ELSE IF ~DataHas(r, col.column_id)
         THEN IF col.not_null THEN MissingErr(col.column_id, r.handle)
              ELSE IF col.has_default_val THEN Ok(col.default_val)
              ELSE Ok(EncodeValue(DatumNull))
         ELSE Ok(r.data[col.column_id])

\* One iteration of the loop of get_binary_cols: the bytes pushed for col.
GetBinaryColsOne(r, col) ==
    IF col.pk_handle THEN Ok(EncodeValue(GetPk(col, r.handle)))
    ELSE IF ~DataHas(r, col.column_id)
         THEN IF col.has_default_val THEN Ok(col.default_val)
              ELSE IF col.not_null THEN MissingErr(col.column_id, r.handle)
              ELSE Ok(EncodeValue(DatumNull))
         ELSE Ok(r.data[col.column_id])

RECURSIVE GetBinaryColsFrom(_, _, _)
GetBinaryColsFrom(r, p, res) ==
    IF p > Len(r.cols) THEN Ok(res)
    ELSE LET one == GetBinaryColsOne(r, r.cols[p])
         IN  IF one.ok THEN GetBinaryColsFrom(r, p + 1, Append(res, one.val))
             ELSE one

\* OriginCols::get_binary_cols
GetBinaryCols(r) == GetBinaryColsFrom(r, 1, <<>>)

\* One iteration of the loop of get_binary: the bytes appended for offset.
GetBinaryOne(r, offset) ==
    LET col == r.cols[offset + 1]
        col_id == col.column_id
    IN  IF DataHas(r, col_id) THEN Ok(r.data[col_id])
        ELSE IF col.pk_handle THEN Ok(EncodeValue(GetPk(col, r.handle)))
        ELSE IF col.has_default_val THEN Ok(col.default_val)
        ELSE IF col.not_null THEN MissingErr(col_id, r.handle)
        ELSE Ok(EncodeValue(DatumNull))

RECURSIVE GetBinaryFrom(_, _, _, _)
GetBinaryFrom(r, output_offsets, i, values) ==
    IF i > Len(output_offsets) THEN Ok(values)
    ELSE LET one == GetBinaryOne(r, output_offsets[i])
         IN  IF one.ok
             THEN GetBinaryFrom(r, output_offsets, i + 1, values \o one.val)
             ELSE one

\* OriginCols::get_binary
GetBinary(r, output_offsets) == GetBinaryFrom(r, output_offsets, 1, <<>>)

\* Decoding a stored or default byte string under box_try!
TryDecode(bs) ==
    LET d == DecodeColValue(bs)
    IN  IF d = DecodeError THEN CodecErr ELSE Ok(d)

\* One iteration of the loop of inflate_cols_with_offsets: the datum stored
\* at res[offset].
InflateOne(r, offset) ==
    LET col == r.cols[offset + 1]
    IN  IF col.pk_handle THEN Ok(GetPk(col, r.handle))
        ELSE IF ~DataHas(r, col.column_id)
             THEN IF col.has_default_val THEN TryDecode(col.default_val)
                  ELSE IF col.not_null THEN MissingErr(col.column_id, r.handle)
                  ELSE Ok(DatumNull)
             ELSE TryDecode(r.data[col.column_id])

\* vec![Datum::Null; self.cols.len()]
InflateInit(r) == [p \in 1..Len(r.cols) |-> DatumNull]

RECURSIVE InflateFrom(_, _, _, _)
InflateFrom(r, offsets, i, res) ==
    IF i > Len(offsets) THEN Ok(res)
    ELSE LET one == InflateOne(r, offsets[i])
         IN  IF one.ok
             THEN InflateFrom(r, offsets, i + 1,
                              [res EXCEPT ![offsets[i] + 1] = one.val])
             ELSE one

\* inflate_cols_with_offsets resolving every declared column
InflateColsWithOffsets_AllCols(r, offsets) ==
    InflateFrom(r, [p \in 1..Len(r.cols) |-> p - 1], 1, InflateInit(r))

\* OriginCols::inflate_cols_with_offsets
InflateColsWithOffsets(r, offsets) == InflateFrom(r, offsets, 1, InflateInit(r))

----------------------------------------------------------------------------
(* Inputs of the row model *)

Handles == {1, 2}

DefaultBytes == EncodeValue(DatumI64(10))

\* Stored column bytes.  Under the handle column's id: the handle as an
\* index scan stores it (encode_key), or another value.  Under any other
\* column's id: a value written by encode_row, or bytes no codec accepts.
StoredBytes(col) ==
    IF col.pk_handle
    THEN { EncodeKey(DatumI64(1)), EncodeValue(DatumI64(2)) }
    ELSE { EncodeValue(DatumI64(2)), <<CORRUPT_FLAG>> }

ColumnInfoAt(p, pk, def, nn) ==
    [column_id |-> p, pk_handle |-> pk, has_default_val |-> def,
     default_val |-> IF def THEN DefaultBytes ELSE <<>>, not_null |-> nn]

\* The column descriptions that may stand at position p (column ids follow
\* the declared position, as in the fixtures of mod tests).
ColumnInfosAt(p) ==
    { ColumnInfoAt(p, FALSE, def, nn) : def \in BOOLEAN, nn \in BOOLEAN }
    \cup { ColumnInfoAt(p, TRUE, FALSE, TRUE) }

ColsOfLen(n) ==
    { cs \in [1..n -> UNION { ColumnInfosAt(p) : p \in 1..n }] :
        /\ \A p \in 1..n : cs[p] \in ColumnInfosAt(p)
        /\ Cardinality({ p \in 1..n : cs[p].pk_handle }) <= 1 }

\* The sparse column-id => bytes dictionaries for the declared columns cs
DataFor(cs) ==
    UNION { { d \in [ps -> UNION { StoredBytes(cs[p]) : p \in ps }] :
                \A p \in ps : d[p] \in StoredBytes(cs[p]) } :
            ps \in SUBSET (1..Len(cs)) }

OriginRows ==
    UNION { { [handle |-> h, data |-> d, cols |-> cs] :
                h \in Handles, d \in DataFor(cs) } :
            cs \in UNION { ColsOfLen(n) : n \in 1..MaxCols } }

RECURSIVE SeqsUpTo(_, _)
SeqsUpTo(S, n) ==
    IF n = 0 THEN { <<>> }
    ELSE LET shorter == SeqsUpTo(S, n - 1)
         IN  shorter \cup { Append(s, x) : s \in shorter, x \in S }

OffsetLists(r) == SeqsUpTo(0..(Len(r.cols) - 1), MaxOffsets)

NoCall == [op |-> "none", out |-> Ok(<<>>)]

IdleRow == [handle |-> 0, data |-> <<>>, cols |-> <<>>]

----------------------------------------------------------------------------
(* ExprColumnRefVisitor *)

\* NumberDecoder::read_i64 on the node's value bytes: the bytes of an i64 are
\* kept as one cell; fewer than eight bytes are the empty sequence.
ReadI64(val) == IF Len(val) >= 1 THEN Ok(val[1]) ELSE CodecErr

\* i64 as usize
AsUsize(n) == n % (2 ^ IntBits)

\* The decoded, range-checked offset of a column reference, off by one
ColumnRefOffset_OffByOne(expr, len) ==
    LET r == ReadI64(expr.val)
    IN  IF ~r.ok THEN r
        ELSE IF AsUsize(r.val) > len
             THEN Err([kind |-> "overflow", col_id |-> 0, handle |-> 0])
             ELSE Ok(AsUsize(r.val))

\* The decoded, range-checked offset of a column reference
ColumnRefOffset(expr, len) ==
    LET r == ReadI64(expr.val)
    IN  IF ~r.ok THEN r
        ELSE IF AsUsize(r.val) >= len
             THEN Err([kind |-> "overflow", col_id |-> 0, handle |-> 0])
             ELSE Ok(AsUsize(r.val))

RECURSIVE Visit(_, _, _)
RECURSIVE BatchVisitFrom(_, _, _, _)

\* ExprColumnRefVisitor::visit; the result holds the outcome and cols_offset
Visit(len, set, expr) ==
    IF expr.tp = "ColumnRef"
    THEN LET offset == ColumnRefOffset(expr, len)
         IN  IF ~offset.ok THEN [ok |-> FALSE, set |-> set]
             ELSE [ok |-> TRUE, set |-> set \cup {offset.val}]
    ELSE BatchVisitFrom(len, set, expr.children, 1)

BatchVisitFrom(len, set, es, i) ==
    IF i > Len(es) THEN [ok |-> TRUE, set |-> set]
    ELSE LET one == Visit(len, set, es[i])
         IN  IF one.ok THEN BatchVisitFrom(len, one.set, es, i + 1) ELSE one

\* ExprColumnRefVisitor::batch_visit
BatchVisit(len, set, es) == BatchVisitFrom(len, set, es, 1)

----------------------------------------------------------------------------
(* Inputs of the visitor model: expression trees *)

ExprNode(tp, val, children) == [tp |-> tp, val |-> val, children |-> children]

\* Offsets written into column references: negative, valid, and cols_len
RefVals == { <<o>> : o \in -1..MaxColsLen } \cup { <<>> }

RefLeaves == { ExprNode("ColumnRef", v, <<>>) : v \in RefVals }

Literal == ExprNode("Other", <<>>, <<>>)

Leaves == RefLeaves \cup { Literal }

\* Column references that carry a child of their own
RefsWithChild == { ExprNode("ColumnRef", <<0>>, <<c>>) : c \in RefLeaves }

Level1 ==
    { ExprNode("Other", <<>>, cs) :
        cs \in SeqsUpTo(Leaves, MaxChildren) \ { <<>> } }

Level2 ==
    { ExprNode("Other", <<>>, <<a>>) : a \in Level1 }
    \cup { ExprNode("Other", <<>>, <<a, b>>) :
                a \in Level1, b \in Leaves \cup RefsWithChild }
    \cup { ExprNode("Other", <<>>, <<b, a>>) :
                a \in Level1, b \in Leaves \cup RefsWithChild }

Exprs == Leaves \cup RefsWithChild \cup Level1 \cup Level2

NoVisit == [op |-> "none", from |-> 1, to |-> 0, ok |-> TRUE]

VisitorIdle ==
    /\ cols_len = 0
    /\ cols_offset = {}
    /\ exprs = <<>>
    /\ nextExpr = 1
    /\ vcall = NoVisit
    /\ allOk = TRUE

----------------------------------------------------------------------------
(* Executor chain: WithSummaryCollector layers 1..depth (1 outermost) over a *)
(* leaf operator, layer depth + 1.                                          *)

RetSome(r) == [kind |-> "Some", v |-> r]

RetNone == [kind |-> "None", v |-> 0]

RetErr == [kind |-> "Err", v |-> 0]

RetUnit == [kind |-> "Unit", v |-> 0]

RetVal(n) == [kind |-> "Val", v |-> n]

Methods ==
    { "next", "collect_exec_stats", "collect_storage_stats",
      "get_len_of_columns", "take_eval_warnings", "take_scanned_range" }

Depth(ch) == Len(ch.collectors)

\* The call of method m arrives at layer i
Enter(ch, m, i) == [ch EXCEPT !.calls[m][i] = @ + 1]

\* ExecSummaryCollector::on_start_iterate
OnStartIterate(ch, i) == [ch EXCEPT !.collectors[i].started = @ + 1]

\* ExecSummaryCollector::on_finish_iterate(timer, rows)
OnFinishIterate(ch, i, rows) ==
    [ch EXCEPT !.collectors[i].finished = @ + 1,
               !.collectors[i].rows = @ + rows,
               !.collectors[i].zeros = @ + (IF rows = 0 THEN 1 ELSE 0),
               !.collectors[i].num_iterations = @ + 1,
               !.collectors[i].num_produced_rows = @ + rows]

\* ExecSummaryCollector::collect(&mut dest.summary_per_executor): the counts
\* are added to the collector's slot and reset
CollectorCollect(ch, d, i) ==
    [ch |-> [ch EXCEPT !.collectors[i].num_iterations = 0,
                       !.collectors[i].num_produced_rows = 0,
                       !.collectors[i].collects = @ + 1],
     d  |-> [d EXCEPT !.summary_per_executor[i] =
                        [num_iterations |->
                            @.num_iterations + ch.collectors[i].num_iterations,
                         num_produced_rows |->
                            @.num_produced_rows + ch.collectors[i].num_produced_rows],
                      !.log = Append(@, i)]]

\* The leaf operator's next(): o is the result it comes to
LeafNext(ch, o) ==
    LET c1 == Enter(ch, "next", Depth(ch) + 1)
        c2 == [c1 EXCEPT
                 !.leaf.some = @ + (IF o.kind = "Some" THEN 1 ELSE 0),
                 !.leaf.none = @ + (IF o.kind = "None" THEN 1 ELSE 0),
                 !.leaf.err = @ + (IF o.kind = "Err" THEN 1 ELSE 0),
                 !.leaf.reads = @ + 1,
                 !.leaf.scanned = @ + (IF o.kind = "Some" THEN 1 ELSE 0),
                 !.leaf.warnings = @ + (IF o = RetSome(2) THEN 1 ELSE 0)]
    IN  [ch |-> c2, ret |-> o]

\* The leaf operator's collect_exec_stats(dest)
LeafCollectExecStats(ch, d) ==
    [ch |-> Enter(ch, "collect_exec_stats", Depth(ch) + 1),
     d  |-> [d EXCEPT !.log = Append(@, Depth(ch) + 1)]]

\* The leaf operator's collect_storage_stats, get_len_of_columns,
\* take_eval_warnings and take_scanned_range
LeafForward(ch, sd, m) ==
    LET c1 == Enter(ch, m, Depth(ch) + 1)
    IN  CASE m = "collect_storage_stats" ->
               [ch |-> [c1 EXCEPT !.leaf.reads = 0],
                sd |-> sd + c1.leaf.reads, ret |-> RetUnit]
          [] m = "get_len_of_columns" ->
               [ch |-> c1, sd |-> sd, ret |-> RetVal(c1.leaf.len)]
          [] m = "take_eval_warnings" ->
               [ch |-> [c1 EXCEPT !.leaf.warnings = 0], sd |-> sd,
                ret |-> IF c1.leaf.warnings = 0 THEN RetNone
                        ELSE RetSome(c1.leaf.warnings)]
          [] m = "take_scanned_range" ->
               [ch |-> [c1 EXCEPT !.leaf.scanned = 0], sd |-> sd,
                ret |-> RetVal(c1.leaf.scanned)]

RECURSIVE ExecNext(_, _, _)
RECURSIVE ExecCollectExecStats(_, _, _)
RECURSIVE ExecForward(_, _, _, _)

\* WithSummaryCollector::next recording one row for every result
WscNext_AlwaysOneRow(ch, i, o) ==
    LET c1 == OnStartIterate(Enter(ch, "next", i), i)
        r  == ExecNext(c1, i + 1, o)
    IN  [ch |-> OnFinishIterate(r.ch, i, 1), ret |-> r.ret]

\* WithSummaryCollector::next recording nothing when the inner call fails
WscNext_SilentOnErr(ch, i, o) ==
    LET c1 == OnStartIterate(Enter(ch, "next", i), i)
        r  == ExecNext(c1, i + 1, o)
    IN  IF r.ret.kind = "Some"
        THEN [ch |-> OnFinishIterate(r.ch, i, 1), ret |-> r.ret]
        ELSE IF r.ret.kind = "None"
        THEN [ch |-> OnFinishIterate(r.ch, i, 0), ret |-> r.ret]
        ELSE [ch |-> r.ch, ret |-> r.ret]

\* WithSummaryCollector::next turning an inner failure into end-of-stream
WscNext_SwallowErr(ch, i, o) ==
    LET c1 == OnStartIterate(Enter(ch, "next", i), i)
        r  == ExecNext(c1, i + 1, o)
    IN  IF r.ret.kind = "Some"
        THEN [ch |-> OnFinishIterate(r.ch, i, 1), ret |-> r.ret]
        ELSE [ch |-> OnFinishIterate(r.ch, i, 0), ret |-> RetNone]

\* WithSummaryCollector::next
WscNext(ch, i, o) ==
    LET c1 == OnStartIterate(Enter(ch, "next", i), i)
        r  == ExecNext(c1, i + 1, o)
    IN  IF r.ret.kind = "Some"
        THEN [ch |-> OnFinishIterate(r.ch, i, 1), ret |-> r.ret]
        ELSE [ch |-> OnFinishIterate(r.ch, i, 0), ret |-> r.ret]

\* WithSummaryCollector::collect_exec_stats delegating before it flushes
WscCollectExecStats_InnerFirst(ch, d, i) ==
    LET r == ExecCollectExecStats(Enter(ch, "collect_exec_stats", i), d, i + 1)
    IN  CollectorCollect(r.ch, r.d, i)

\* WithSummaryCollector::collect_exec_stats
WscCollectExecStats(ch, d, i) ==
    LET c == CollectorCollect(Enter(ch, "collect_exec_stats", i), d, i)
    IN  ExecCollectExecStats(c.ch, c.d, i + 1)

\* WithSummaryCollector::collect_storage_stats, get_len_of_columns,
\* take_eval_warnings, take_scanned_range
WscForward(ch, sd, m, i) == ExecForward(Enter(ch, m, i), sd, m, i + 1)

\* Dispatch on the operator at layer i (Box<dyn Executor>)
ExecNext(ch, i, o) ==
    IF i > Depth(ch) THEN LeafNext(ch, o) ELSE WscNext(ch, i, o)

ExecCollectExecStats(ch, d, i) ==
    IF i > Depth(ch) THEN LeafCollectExecStats(ch, d)
    ELSE WscCollectExecStats(ch, d, i)

ExecForward(ch, sd, m, i) ==
    IF i > Depth(ch) THEN LeafForward(ch, sd, m) ELSE WscForward(ch, sd, m, i)

----------------------------------------------------------------------------
(* Chain specification *)

NewCollector ==
    [started |-> 0, finished |-> 0, rows |-> 0, zeros |-> 0, collects |-> 0,
     num_iterations |-> 0, num_produced_rows |-> 0]

NewLeaf ==
    [len |-> 3, some |-> 0, none |-> 0, err |-> 0,
     reads |-> 0, scanned |-> 0, warnings |-> 0]

\* leaf.with_summary_collector(c) .. .with_summary_collector(c), n times
NewChain(n) ==
    [collectors |-> [i \in 1..n |-> NewCollector],
     calls |-> [m \in Methods |-> [i \in 1..(n + 1) |-> 0]],
     leaf |-> NewLeaf]

\* ExecuteStats::new(n)
NewDest(n) ==
    [summary_per_executor |->
        [i \in 1..n |-> [num_iterations |-> 0, num_produced_rows |-> 0]],
     log |-> <<>>]

NoExecCall == [method |-> "none", ret |-> RetUnit, inner |-> RetUnit, logFrom |-> 0]

ChainIdle ==
    /\ chain = NewChain(0)
    /\ dest = NewDest(0)
    /\ sdest = 0
    /\ last = NoExecCall
    /\ steps = 0

\* Results the leaf operator's next() can come to
LeafResults == { RetSome(1), RetSome(2), RetNone, RetErr }

ChainInit ==
    /\ \E n \in 1..MaxDepth : chain = NewChain(n) /\ dest = NewDest(n)
    /\ sdest = 0
    /\ last = NoExecCall
    /\ steps = 0
    /\ row = IdleRow
    /\ args = <<>>
    /\ call = NoCall
    /\ VisitorIdle

\* top.next()
CallNext ==
    /\ steps < MaxCalls
    /\ \E o \in LeafResults :
          LET r == ExecNext(chain, 1, o)
          IN  /\ chain' = r.ch
              /\ last' = [method |-> "next", ret |-> r.ret, inner |-> o,
                          logFrom |-> Len(dest.log)]
    /\ steps' = steps + 1
    /\ UNCHANGED <<dest, sdest, rowVars, visitorVars>>

\* top.collect_exec_stats(&mut dest)
CallCollectExecStats ==
    /\ steps < MaxCalls
    /\ LET r == ExecCollectExecStats(chain, dest, 1)
       IN  /\ chain' = r.ch
           /\ dest' = r.d
    /\ last' = [method |-> "collect_exec_stats", ret |-> RetUnit,
                inner |-> RetUnit, logFrom |-> Len(dest.log)]
    /\ steps' = steps + 1
    /\ UNCHANGED <<sdest, rowVars, visitorVars>>

\* top.collect_storage_stats(&mut sdest), top.get_len_of_columns(),
\* top.take_eval_warnings(), top.take_scanned_range()
CallForward ==
    /\ steps < MaxCalls
    /\ \E m \in Methods \ { "next", "collect_exec_stats" } :
          LET r == ExecForward(chain, sdest, m, 1)
              l == LeafForward(chain, sdest, m)
          IN  /\ chain' = r.ch
              /\ sdest' = r.sd
              /\ last' = [method |-> m, ret |-> r.ret, inner |-> l.ret,
                          logFrom |-> Len(dest.log)]
    /\ steps' = steps + 1
    /\ UNCHANGED <<dest, rowVars, visitorVars>>

ChainNext == CallNext \/ CallCollectExecStats \/ CallForward

SpecChain == ChainInit /\ [][ChainNext]_vars

----------------------------------------------------------------------------
(* Properties of the chain model *)

Layers == 1..Depth(chain)

RECURSIVE SumOver(_, _)
SumOver(f, S) ==
    IF S = {} THEN 0
    ELSE LET x == CHOOSE y \in S : TRUE IN f[x] + SumOver(f, S \ {x})

\* C7: when the wrapped operator has been pulled up to its first
\* end-of-stream result and has never failed, every collector has recorded
\* as many rows as the wrapped operator returned non-empty results, and
\* exactly one zero-rows event, the one of the terminal call.
C7_SummaryCounts ==
    (last.method = "next" /\ last.inner = RetNone
        /\ chain.leaf.none = 1 /\ chain.leaf.err = 0) =>
        \A i \in Layers :
            /\ chain.collectors[i].rows = chain.leaf.some
            /\ chain.collectors[i].zeros = 1

\* End-of-stream reached through two decorators after two rows.
C7_Witness ==
    /\ last.method = "next" /\ last.inner = RetNone /\ last.ret = RetNone
    /\ chain.leaf.none = 1 /\ chain.leaf.err = 0
    /\ chain.leaf.some = 2
    /\ Depth(chain) = 2

\* C8: a failure of the wrapped operator's next() is propagated, and the
\* collector is notified (on_finish_iterate) only for calls that completed
\* with a row or with end-of-stream.
C8_NoEventOnFailure ==
    /\ (last.method = "next" /\ last.inner = RetErr) => last.ret = RetErr
    /\ \A i \in Layers :
          chain.collectors[i].finished = chain.leaf.some + chain.leaf.none

\* C8 (amended): a failure of the wrapped operator's next() is propagated,
\* and the collector is notified once for every call: with one row for a
\* row, with zero rows for end-of-stream and for a failure alike.
C8_FailureRecordedAsZeroRows ==
    /\ (last.method = "next" /\ last.inner = RetErr) => last.ret = RetErr
    /\ \A i \in Layers :
          /\ chain.collectors[i].finished =
                chain.leaf.some + chain.leaf.none + chain.leaf.err
          /\ chain.collectors[i].zeros = chain.leaf.none + chain.leaf.err

\* The wrapped operator failed after it had returned a row.
C8_Witness ==
    /\ last.method = "next" /\ last.inner = RetErr /\ last.ret = RetErr
    /\ chain.leaf.some >= 1
    /\ chain.leaf.err = 1
    /\ \A i \in Layers : chain.collectors[i].zeros = 1

\* C9: the decorator does not change the operator's behaviour: every call
\* of a method on a decorator makes exactly one call of the same method on
\* the wrapped operator and returns its result unchanged; only next touches
\* on_start_iterate / on_finish_iterate and only collect_exec_stats touches
\* collect.
C9_DecoratorTransparent ==
    /\ last.method # "none" => last.ret = last.inner
    /\ \A m \in Methods : \A i \in Layers :
          chain.calls[m][i] = chain.calls[m][i + 1]
    /\ SumOver([m \in Methods |-> chain.calls[m][Depth(chain) + 1]], Methods)
          = steps
    /\ \A i \in Layers :
          /\ chain.collectors[i].started = chain.calls["next"][i]
          /\ chain.collectors[i].finished = chain.calls["next"][i]
          /\ chain.collectors[i].collects = chain.calls["collect_exec_stats"][i]

\* Warnings raised below two decorators are drained through both, after a
\* failure of next() had been passed through.
C9_Witness ==
    /\ Depth(chain) = 2
    /\ last.method = "take_eval_warnings" /\ last.ret.kind = "Some"
    /\ chain.leaf.err >= 1
    /\ chain.calls["take_eval_warnings"][3] = 1

\* C10: one call of collect_exec_stats(dest) on the topmost operator flushes
\* every collector of the chain exactly once into dest, outermost first,
\* each before the operator it wraps is called, the leaf last.
C10_CollectExecStatsChain ==
    /\ last.method = "collect_exec_stats" =>
          SubSeq(dest.log, last.logFrom + 1, Len(dest.log))
              = [i \in 1..(Depth(chain) + 1) |-> i]
    /\ \A i \in Layers :
          /\ dest.summary_per_executor[i].num_produced_rows
                + chain.collectors[i].num_produced_rows
                    = chain.collectors[i].rows
          /\ dest.summary_per_executor[i].num_iterations
                + chain.collectors[i].num_iterations
                    = chain.collectors[i].finished

\* A chain of two decorators flushed after rows had been produced.
C10_Witness ==
    /\ Depth(chain) = 2
    /\ last.method = "collect_exec_stats"
    /\ \A i \in Layers :
          /\ dest.summary_per_executor[i].num_produced_rows >= 1
          /\ chain.collectors[i].num_iterations = 0

----------------------------------------------------------------------------
(* Visitor specification *)

\* ExprColumnRefVisitor::new(cols_len), and the expressions of the plan
VisitorInit ==
    /\ cols_len \in 1..MaxColsLen
    /\ cols_offset = {}
    /\ exprs \in { <<e1, e2>> : e1 \in Exprs, e2 \in Leaves }
    /\ nextExpr = 1
    /\ vcall = NoVisit
    /\ allOk = TRUE
    /\ row = IdleRow
    /\ args = <<>>
    /\ call = NoCall
    /\ ChainIdle

\* visitor.visit(&exprs[nextExpr])
DoVisit ==
    /\ nextExpr <= Len(exprs)
    /\ LET r == Visit(cols_len, cols_offset, exprs[nextExpr])
       IN  /\ cols_offset' = r.set
           /\ vcall' = [op |-> "visit", from |-> nextExpr, to |-> nextExpr,
                        ok |-> r.ok]
           /\ allOk' = (allOk /\ r.ok)
    /\ nextExpr' = nextExpr + 1
    /\ UNCHANGED <<cols_len, exprs, rowVars, chainVars>>

\* visitor.batch_visit(&exprs[nextExpr..])
DoBatchVisit ==
    /\ nextExpr <= Len(exprs)
    /\ LET r == BatchVisit(cols_len, cols_offset,
                           SubSeq(exprs, nextExpr, Len(exprs)))
       IN  /\ cols_offset' = r.set
           /\ vcall' = [op |-> "batch_visit", from |-> nextExpr,
                        to |-> Len(exprs), ok |-> r.ok]
           /\ allOk' = (allOk /\ r.ok)
    /\ nextExpr' = Len(exprs) + 1
    /\ UNCHANGED <<cols_len, exprs, rowVars, chainVars>>

VisitorNext == DoVisit \/ DoBatchVisit

SpecVisitor == VisitorInit /\ [][VisitorNext]_vars

----------------------------------------------------------------------------
(* Properties of the visitor model *)

KidsOf(S) ==
    UNION { { n.children[i] : i \in 1..Len(n.children) } :
                n \in { m \in S : m.tp # "ColumnRef" } }

\* The nodes of a set of trees reachable through non-reference nodes
RECURSIVE ReachableNodes(_)
ReachableNodes(S) ==
    LET more == S \cup KidsOf(S)
    IN  IF more = S THEN S ELSE ReachableNodes(more)

ReachableRefs(es, from, to) ==
    { n \in ReachableNodes({ es[i] : i \in from..to }) : n.tp = "ColumnRef" }

\* The signed offset of a reference is readable and within 0..cols_len-1
InRange(n) == Len(n.val) >= 1 /\ n.val[1] >= 0 /\ n.val[1] < cols_len

\* C6: a call fails when a column reference it reaches has an offset outside
\* 0..cols_len-1; the recorded set holds only offsets below cols_len; when
\* every call succeeded it is exactly the set of offsets of the column
\* references reachable through non-reference nodes in the visited trees.
C6_VisitorOffsets ==
    /\ cols_offset \subseteq 0..(cols_len - 1)
    /\ vcall.op # "none" =>
          (vcall.ok <=> \A n \in ReachableRefs(exprs, vcall.from, vcall.to) :
                            InRange(n))
    /\ allOk =>
          cols_offset = { n.val[1] : n \in ReachableRefs(exprs, 1, nextExpr - 1) }

\* Both calls succeeded, the first on a nested tree in which one node holds
\* the same reference twice and a reference carries offset cols_len - 1.
C6_Witness ==
    /\ allOk /\ nextExpr = 3 /\ vcall.op = "visit"
    /\ (cols_len - 1) \in cols_offset
    /\ \E n \in ReachableNodes({exprs[1]}) :
          /\ n # exprs[1]
          /\ n.tp = "Other" /\ Len(n.children) = 2
          /\ n.children[1] = n.children[2]
          /\ n.children[1].tp = "ColumnRef"

----------------------------------------------------------------------------
(* Row specification *)

\* OriginCols::new, and the offsets args the caller passes
RowInit ==
    /\ row \in OriginRows
    /\ args \in OffsetLists(row)
    /\ call = NoCall
    /\ VisitorIdle
    /\ ChainIdle

\* row.get_binary(&args)
DoGetBinary ==
    /\ call' = [op |-> "get_binary", out |-> GetBinary(row, args)]
    /\ UNCHANGED <<row, args, visitorVars, chainVars>>

\* row.get_binary_cols()
DoGetBinaryCols ==
    /\ call' = [op |-> "get_binary_cols", out |-> GetBinaryCols(row)]
    /\ UNCHANGED <<row, args, visitorVars, chainVars>>

\* row.inflate_cols_with_offsets(ctx, &args)
DoInflate ==
    /\ call' = [op |-> "inflate_cols_with_offsets",
                out |-> InflateColsWithOffsets(row, args)]
    /\ UNCHANGED <<row, args, visitorVars, chainVars>>

RowNext == DoGetBinary \/ DoGetBinaryCols \/ DoInflate

SpecRow == RowInit /\ [][RowNext]_vars

----------------------------------------------------------------------------
(* Properties of the row model *)

MinOf(S) == CHOOSE i \in S : \A j \in S : i <= j

RECURSIVE ConcatAll(_)
ConcatAll(ss) == IF ss = <<>> THEN <<>> ELSE Head(ss) \o ConcatAll(Tail(ss))

\* The datums a concatenation of encoded values decodes to
RECURSIVE DecodeAll(_)
DecodeAll(bs) ==
    IF bs = <<>> THEN <<>>
    ELSE IF bs[1] \in {INT_FLAG, VAR_INT_FLAG} /\ Len(bs) >= 2
    THEN <<DecodeColValue(SubSeq(bs, 1, 2))>> \o DecodeAll(SubSeq(bs, 3, Len(bs)))
    ELSE <<DecodeColValue(SubSeq(bs, 1, 1))>> \o DecodeAll(Tail(bs))

\* Two results of get_binary are the same error or encode the same datums
SameBinary(x, y) ==
    IF x.ok /\ y.ok THEN DecodeAll(x.val) = DecodeAll(y.val) ELSE x = y

IsMissing(out) == ~out.ok /\ out.val.kind = "missing"

PkPositions(r) == { p \in 1..Len(r.cols) : r.cols[p].pk_handle }

\* The five-step column-value resolution policy, handle first.
PolicyBinary(r, col) ==
    CASE col.pk_handle -> Ok(EncodeValue(DatumI64(r.handle)))
      [] ~col.pk_handle /\ DataHas(r, col.column_id) -> Ok(r.data[col.column_id])
      [] ~col.pk_handle /\ ~DataHas(r, col.column_id) /\ col.has_default_val ->
            Ok(col.default_val)
      [] ~col.pk_handle /\ ~DataHas(r, col.column_id) /\ ~col.has_default_val
            /\ col.not_null -> MissingErr(col.column_id, r.handle)
      [] OTHER -> Ok(EncodeValue(DatumNull))

\* C1: for every origin row and every declared column, get_binary called
\* with the column's offset, the entry of get_binary_cols at the column's
\* position and the entry of inflate_cols_with_offsets at that offset agree
\* on the column's value (equal decoded values, or the same error).
C1_ThreePathsAgree ==
    (call.op = "get_binary" /\ Len(args) = 1) =>
        LET off == args[1]
            gb  == call.out
            gbc == GetBinaryCols(row)
            inf == InflateColsWithOffsets(row, <<off>>)
        IN  /\ IF ~gb.ok THEN inf = gb
               ELSE IF DecodeColValue(gb.val) = DecodeError THEN inf = CodecErr
               ELSE inf.ok /\ inf.val[off + 1] = DecodeColValue(gb.val)
            /\ gbc.ok =>
                 /\ gb.ok
                 /\ DecodeColValue(gbc.val[off + 1]) = DecodeColValue(gb.val)

\* The row r without the entry data holds under the handle column's id.
StripHandle(r) ==
    LET pkIds == { r.cols[p].column_id : p \in PkPositions(r) }
    IN  [r EXCEPT !.data = [id \in (DOMAIN r.data) \ pkIds |-> r.data[id]]]

ApplyOp(op, r, a) ==
    CASE op = "get_binary" -> GetBinary(r, a)
      [] op = "get_binary_cols" -> GetBinaryCols(r)
      [] op = "inflate_cols_with_offsets" -> InflateColsWithOffsets(r, a)

\* C2: in each of the three paths the value of the handle column comes from
\* the row's handle alone: a row and the same row without (or with another)
\* entry in data under the handle column's id give the same values.
C2_HandleIgnoresData ==
    (call.op # "none" /\ PkPositions(row) # {}) =>
        LET other == ApplyOp(call.op, StripHandle(row), args)
        IN  IF call.op = "get_binary" THEN SameBinary(call.out, other)
            ELSE call.out = other

\* The columns a call resolves, in the order it resolves them.
ResolvedCols ==
    IF call.op = "get_binary_cols" THEN row.cols
    ELSE [i \in 1..Len(args) |-> row.cols[args[i] + 1]]

MissingState(r, col) ==
    /\ ~col.pk_handle
    /\ ~DataHas(r, col.column_id)
    /\ ~col.has_default_val
    /\ col.not_null

NullState(r, col) ==
    /\ ~col.pk_handle
    /\ ~DataHas(r, col.column_id)
    /\ ~col.has_default_val
    /\ ~col.not_null

\* The bytes inflate_cols_with_offsets has to decode for col are not decodable.
Undecodable(r, col) ==
    /\ ~col.pk_handle
    /\ \/ DataHas(r, col.column_id)
          /\ DecodeColValue(r.data[col.column_id]) = DecodeError
       \/ ~DataHas(r, col.column_id) /\ col.has_default_val
          /\ DecodeColValue(col.default_val) = DecodeError

\* C3: a missing-column error is raised exactly when a column being resolved
\* is not the handle column, is absent from data, has no default and is NOT
\* NULL; it carries that column's id and the row's handle.  An absent column
\* with a default never raises it, an absent nullable column yields NULL, and
\* get_binary_cols fails if any declared column is in that state.
C3_MissingColumnError ==
    call.op # "none" =>
        LET cs == ResolvedCols
            stops(j) == call.op = "inflate_cols_with_offsets"
                            /\ Undecodable(row, cs[j])
            miss == { i \in 1..Len(cs) :
                        /\ MissingState(row, cs[i])
                        /\ \A j \in 1..(i - 1) : ~stops(j) }
        IN  /\ IsMissing(call.out) <=> miss # {}
            /\ miss # {} =>
                 call.out = MissingErr(cs[MinOf(miss)].column_id, row.handle)
            /\ (call.op = "get_binary_cols" /\ call.out.ok) =>
                 \A p \in 1..Len(cs) :
                    /\ NullState(row, cs[p]) =>
                         call.out.val[p] = EncodeValue(DatumNull)
                    /\ (~cs[p].pk_handle /\ ~DataHas(row, cs[p].column_id)
                            /\ cs[p].has_default_val) =>
                         call.out.val[p] = cs[p].default_val
            /\ (call.op = "inflate_cols_with_offsets" /\ call.out.ok) =>
                 \A i \in 1..Len(cs) :
                    NullState(row, cs[i]) =>
                        call.out.val[args[i] + 1] = DatumNull
            /\ (call.op = "get_binary_cols"
                    /\ \E p \in 1..Len(row.cols) : MissingState(row, row.cols[p]))
                 => ~call.out.ok

\* get_binary_cols failed on a NOT NULL column without default that stands
\* behind an absent NOT NULL column resolved from its default.
C3_Witness ==
    /\ call.op = "get_binary_cols"
    /\ IsMissing(call.out)
    /\ \E p \in 1..Len(row.cols) :
          /\ row.cols[p].column_id = call.out.val.col_id
          /\ MissingState(row, row.cols[p])
          /\ \E q \in 1..(p - 1) :
                /\ row.cols[q].has_default_val /\ row.cols[q].not_null
                /\ ~DataHas(row, row.cols[q].column_id)

\* C4: get_binary(output_offsets) is the concatenation of one encoded value
\* per entry of output_offsets, in that order, each encoding the five-step
\* resolution of the column at that offset (or the error of the first
\* failing one).
C4_GetBinaryIsPolicyConcat ==
    call.op = "get_binary" =>
        LET vals == [i \in 1..Len(args) |->
                        PolicyBinary(row, row.cols[args[i] + 1])]
            bad == { i \in 1..Len(args) : ~vals[i].ok }
        IN  IF bad = {}
            THEN SameBinary(call.out,
                            Ok(ConcatAll([i \in 1..Len(vals) |-> vals[i].val])))
            ELSE call.out = vals[MinOf(bad)]

\* C5: inflate_cols_with_offsets on success returns one datum per declared
\* column; every position not listed in offsets is NULL (all of them for an
\* empty list); a column not listed never causes a missing-column error.
C5_InflateShape ==
    call.op = "inflate_cols_with_offsets" =>
        LET listed == { args[i] : i \in 1..Len(args) }
        IN  /\ call.out.ok =>
                 /\ Len(call.out.val) = Len(row.cols)
                 /\ \A p \in 1..Len(row.cols) :
                        (p - 1) \notin listed => call.out.val[p] = DatumNull
            /\ args = <<>> =>
                 call.out = Ok([p \in 1..Len(row.cols) |-> DatumNull])
            /\ IsMissing(call.out) =>
                 \E off \in listed :
                     row.cols[off + 1].column_id = call.out.val.col_id

\* A successful call with a repeated offset on a row that has a column not
\* listed, NOT NULL, without default and absent from data.
C5_Witness ==
    /\ call.op = "inflate_cols_with_offsets"
    /\ call.out.ok
    /\ Len(args) = 2 /\ args[1] = args[2]
    /\ \E p \in 1..Len(row.cols) :
          /\ (p - 1) # args[1]
          /\ MissingState(row, row.cols[p])
          /\ call.out.val[p] = DatumNull
    /\ call.out.val[args[1] + 1] # DatumNull

====
